---- MODULE Spec2Model ----
(***************************************************************************)
(* The two remote-list-fetch components of the repository:                 *)
(*   UseEff  - useState/useEffect, manual loading/error state              *)
(*   RQuery  - useQuery(["todos"], fetchTodos) of @tanstack/react-query    *)
(* Each behaviour exercises one of the two components (topic), through     *)
(* activations (mount), deactivations (unmount) and settlements of the     *)
(* HTTP request issued by axios.get.                                       *)
(***************************************************************************)
EXTENDS Integers, Sequences, FiniteSets, TLC

\* ---------------------------------------------------------------- bounds
MaxInst == 2      \* activations of a component in one behaviour
MaxLen == 2       \* longest todo array a response carries

\* ---------------------------------------------------------------- data
\* interface Todo: the fields the components render (id, title).
Todo == {[id |-> 1, title |-> "A"], [id |-> 2, title |-> "B"]}

RECURSIVE SeqsUpTo(_)
SeqsUpTo(n) ==
    IF n = 0 THEN {<<>>}
    ELSE LET S == SeqsUpTo(n - 1)
         IN  S \cup {Append(s, t) : s \in {x \in S : Len(x) = n - 1}, t \in Todo}

\* A response body after axios' JSON handling: an array of todos, or a value
\* that is no array (a JSON object, or the raw text of a body that is no JSON).
ArrayBody(items) == [isArray |-> TRUE, items |-> items]
NotArrayBody == [isArray |-> FALSE, items |-> <<>>]
Bodies == {ArrayBody(s) : s \in SeqsUpTo(MaxLen)} \cup {NotArrayBody}

\* Error | null of useState<Error | null>, and AxiosError of useQuery.
NullError == [isNull |-> TRUE, message |-> ""]
AxiosError(m) == [isNull |-> FALSE, message |-> m]

\* What the network does with GET https://jsonplaceholder.typicode.com/todos.
StatusCodes == {200, 404, 500}
Responses ==
    {[reached |-> FALSE, status |-> 0, body |-> NotArrayBody]}
    \cup {[reached |-> TRUE, status |-> s, body |-> b] : s \in StatusCodes, b \in {NotArrayBody}}
    \cup {[reached |-> TRUE, status |-> 200, body |-> b] : b \in Bodies}

\* axios.get<Todo[]>(url): rejects with an AxiosError when the server is not
\* reached or the status is outside 2xx (default validateStatus); resolves with
\* {data} otherwise, whatever the body is (the type argument checks nothing).
AxiosGet(resp) ==
    IF ~resp.reached
    THEN [ok |-> FALSE, data |-> NotArrayBody, err |-> AxiosError("Network Error")]
    ELSE IF resp.status < 200 \/ resp.status >= 300
    THEN [ok |-> FALSE, data |-> NotArrayBody,
          err |-> AxiosError("Request failed with status code " \o ToString(resp.status))]
    ELSE [ok |-> TRUE, data |-> resp.body, err |-> NullError]

\* ---------------------------------------------------------------- views
LoadingView == [kind |-> "Loading", text |-> "", entries |-> <<>>]
ErrorView(e) == [kind |-> "Error", text |-> e.message, entries |-> <<>>]
SuccessView(es) == [kind |-> "Success", text |-> "", entries |-> es]
\* todos.map is not a function: the render throws.
CrashView == [kind |-> "Crash", text |-> "", entries |-> <<>>]

\* Faulty variant: the entries are keyed by item.id instead of the index.
UseEffEntriesKeyedById(items) ==
    [i \in 1..Len(items) |-> [key |-> items[i].id, text |-> items[i].title]]

\* UseEff: todos.map((item, id) => <div key={id}>{item.title}</div>)
UseEffEntries(items) ==
    [i \in 1..Len(items) |-> [key |-> i - 1, text |-> items[i].title]]

\* The return statements of UseEff, in their order.
UseEffRender(s) ==
    IF s.loading THEN LoadingView
    ELSE IF ~s.error.isNull THEN ErrorView(s.error)
    ELSE IF s.todos.isArray THEN SuccessView(UseEffEntries(s.todos.items))
    ELSE CrashView

\* ---------------------------------------------------------------- UseEff
VARIABLES
    topic,      \* the component this behaviour exercises
    ueN,        \* activations of UseEff so far; instance ueN is the latest
    ueLife,     \* instance -> "none" | "mounted" | "unmounted" | "crashed"
    ueState,    \* instance -> [todos, loading, error], the three useState cells
    uePending,  \* instance -> axios.get calls of the instance still in flight
    ueQueue,    \* instance -> setter calls of a running fetchTodos continuation
    ueCalls,    \* instance -> axios.get calls the instance has issued
    ueLate,     \* instance -> setters called after the instance was deactivated
    ueFirst,    \* instance -> kind of the first view rendered ("" before)
    ueSeen,     \* instance -> kinds of the views rendered so far
    ueSet,      \* instance -> setters applied to the instance while mounted
    ueResp      \* instance -> the response its request settled with

ueVars == <<ueN, ueLife, ueState, uePending, ueQueue, ueCalls, ueLate, ueFirst, ueSeen,
            ueSet, ueResp>>

VARIABLES
    rqN,              \* activations of RQuery so far
    rqLife,           \* "none" | "mounted" | "unmounted" | "crashed"
    query,            \* the cache entry of key ["todos"]
    rqInFlight,       \* an axios.get call of RQuery.fetchTodos is in flight
    rqRetryWait,      \* the retryer sleeps before the next try
    rqRetryCancelled, \* the retryer was told not to retry (no observer left)
    rqRefetches,      \* window-focus refetches of the current activation
    rqAttempt,        \* how the current attempt began: "mount" | "join" | "focus"
    rqCached,         \* the cache entry held data when the current attempt began
    rqPrev,           \* kind of the view the previous activation ended with
    rqCalls,          \* axios.get calls issued during the current attempt
    rqCause,          \* what issued the latest call: "mount" | "retry" | "focus"
    rqRejected,       \* a request of the current attempt rejected
    rqResolved,       \* the fetch of the current attempt has ended
    rqFirst,          \* kind of the first view of the current attempt
    rqSeen,           \* kinds of the views of the current attempt
    rqResp            \* the response the latest request settled with

rqGhost == <<rqAttempt, rqCached, rqPrev, rqCalls, rqCause, rqRejected, rqResolved,
             rqFirst, rqSeen, rqResp>>

rqVars == <<rqN, rqLife, query, rqInFlight, rqRetryWait, rqRetryCancelled, rqRefetches,
            rqGhost>>

NoResponse == [settled |-> FALSE, reached |-> FALSE, status |-> 0, body |-> NotArrayBody]
Settled(resp) ==
    [settled |-> TRUE, reached |-> resp.reached, status |-> resp.status, body |-> resp.body]

Inst == 1..MaxInst

\* ------------------------------------------------- tutorial examples: state
\* The examples of the written tutorials; a behaviour exercises one of them
\* when topic names it.
VARIABLES
    \* cleanup example (App + ExampleComponent with setInterval)
    clShow,     \* App's showExample
    clActive,   \* interval ids that are set and not cleared
    clOwn,      \* `interval` of the mounted ExampleComponent's effect (0: none)
    clNextId,   \* next id setInterval returns
    clToggles,  \* clicks on the show/hide button so far
    clLog,      \* "Interval is running..." lines logged so far
    clLate,     \* an interval tick happened while ExampleComponent was unmounted
    \* three-effects example (dependency arrays)
    dpMounted, dpMounts, dpCount, dpName,
    dpRuns,     \* runs of the three effects: [every, once, onCount]
    dpRenders,  \* renders so far
    dpChanges,  \* renders in which count differed from the previous render
    dpClicks,   \* button clicks so far
    \* localStorage caching example
    lcN, lcMounted,
    lcStorage,  \* localStorage item "cachedData": NoItem or a string
    lcData,     \* instance -> data state (NoData: null)
    lcPending,  \* instance -> its fetchData call is in flight
    lcCalls,    \* instance -> API requests the instance issued
    lcFound,    \* instance -> what getItem returned in its effect
    \* interval-refetch example
    rfN, rfMounted,
    rfActive,   \* interval ids that are set and not cleared
    rfOwn,      \* `interval` of the mounted component's effect (0: none)
    rfNextId,
    rfPending,  \* requests in flight: records [req, inst]
    rfNextReq,  \* number of the next request
    rfData,     \* instance -> [req, val] shown (req 0: null)
    rfStarted,  \* instance -> fetchData calls started
    rfTicks,    \* instance -> interval ticks that called fetchData
    rfOrphans,  \* fetchData calls started while no component was mounted
    rfLate,     \* instance -> setData was called after its unmount
    rfStale,    \* instance -> an older response replaced a newer one
    \* useDebounce
    dbValue, dbDebounced,
    dbTimers,   \* timeouts set and not cleared: records [id, due, val]
    dbHandler,  \* handler.current (0: null)
    dbNextId, dbClock,
    dbSince,    \* clock at the last change of value
    \* incrementTwice, with functional updaters and with values
    ctFunctional, ctValue, ctClicksF, ctClicksV,
    \* MyComponent of Mistake 1, useEffect version
    fnFirst, fnLast, fnFull,
    fnDirty     \* the effect of the last render has not run yet

clVars == <<clShow, clActive, clOwn, clNextId, clToggles, clLog, clLate>>
dpVars == <<dpMounted, dpMounts, dpCount, dpName, dpRuns, dpRenders, dpChanges, dpClicks>>
lcVars == <<lcN, lcMounted, lcStorage, lcData, lcPending, lcCalls, lcFound>>
rfVars == <<rfN, rfMounted, rfActive, rfOwn, rfNextId, rfPending, rfNextReq, rfData,
            rfStarted, rfTicks, rfOrphans, rfLate, rfStale>>
dbVars == <<dbValue, dbDebounced, dbTimers, dbHandler, dbNextId, dbClock, dbSince>>
ctVars == <<ctFunctional, ctValue, ctClicksF, ctClicksV>>
fnVars == <<fnFirst, fnLast, fnFull, fnDirty>>

exVars == <<clVars, dpVars, lcVars, rfVars, dbVars, ctVars, fnVars>>
\* Everything an action of one example leaves alone.
clRest == <<ueVars, rqVars, dpVars, lcVars, rfVars, dbVars, ctVars, fnVars>>
dpRest == <<ueVars, rqVars, clVars, lcVars, rfVars, dbVars, ctVars, fnVars>>
lcRest == <<ueVars, rqVars, clVars, dpVars, rfVars, dbVars, ctVars, fnVars>>
rfRest == <<ueVars, rqVars, clVars, dpVars, lcVars, dbVars, ctVars, fnVars>>
dbRest == <<ueVars, rqVars, clVars, dpVars, lcVars, rfVars, ctVars, fnVars>>
ctRest == <<ueVars, rqVars, clVars, dpVars, lcVars, rfVars, dbVars, fnVars>>
fnRest == <<ueVars, rqVars, clVars, dpVars, lcVars, rfVars, dbVars, ctVars>>

\* Faulty variants of the initial state: loading starts false; the state is kept
\* outside the component and survives a re-activation.
UseEffInitialStateNotLoading ==
    [todos |-> ArrayBody(<<>>), loading |-> FALSE, error |-> NullError]
UseEffInitialStateKept ==
    IF ueN > 0 THEN ueState[ueN]
    ELSE [todos |-> ArrayBody(<<>>), loading |-> TRUE, error |-> NullError]

\* useState<Todo[]>([]), useState<boolean>(true), useState<Error | null>(null)
UseEffInitialState == [todos |-> ArrayBody(<<>>), loading |-> TRUE, error |-> NullError]

\* Faulty variant: the try branch also calls setError(null).
SuccessWritesClearsError(data) ==
    << [cell |-> "todos", val |-> data], [cell |-> "error", val |-> NullError],
       [cell |-> "loading", val |-> FALSE] >>

\* Faulty variant: setLoading(false) is called before setTodos(data).
SuccessWritesLoadingFirst(data) ==
    << [cell |-> "loading", val |-> FALSE], [cell |-> "todos", val |-> data] >>

\* try branch of fetchTodos: setTodos(data); setLoading(false);
SuccessWrites(data) ==
    << [cell |-> "todos", val |-> data], [cell |-> "loading", val |-> FALSE] >>

\* Faulty variants: the catch branch forgets setError; it forgets setLoading(false).
FailureWritesNoError(err) == << [cell |-> "loading", val |-> FALSE] >>
FailureWritesKeepLoading(err) == << [cell |-> "error", val |-> err] >>

\* catch branch of fetchTodos: setError(err as AxiosError); setLoading(false);
FailureWrites(err) ==
    << [cell |-> "error", val |-> err], [cell |-> "loading", val |-> FALSE] >>

\* fetchTodos after the await: which setters run for a settled request.
fetchTodosWrites(out) ==
    IF out.ok THEN SuccessWrites(out.data) ELSE FailureWrites(out.err)

\* Faulty variant: fetchTodos without its try/catch; a rejection leaves the
\* function as an exception and no setter is called.
UseEffFetchTodosNoCatch(out) ==
    [threw |-> ~out.ok, writes |-> IF out.ok THEN SuccessWrites(out.data) ELSE <<>>]

\* UseEff.fetchTodos as a whole: try { await axios.get; setters } catch { setters }.
\* Whatever axios.get does, the function returns normally.
UseEffFetchTodos(out) == [threw |-> FALSE, writes |-> fetchTodosWrites(out)]

SetterName(w) ==
    CASE w.cell = "todos" -> "setTodos"
      [] w.cell = "loading" -> "setLoading"
      [] w.cell = "error" -> "setError"

SetterNames(ws) == {SetterName(ws[k]) : k \in 1..Len(ws)}

ApplyWrite(s, w) ==
    CASE w.cell = "todos" -> [s EXCEPT !.todos = w.val]
      [] w.cell = "loading" -> [s EXCEPT !.loading = w.val]
      [] w.cell = "error" -> [s EXCEPT !.error = w.val]

RECURSIVE ApplyWrites(_, _)
ApplyWrites(s, ws) ==
    IF Len(ws) = 0 THEN s ELSE ApplyWrites(ApplyWrite(s, Head(ws)), Tail(ws))

\* Faulty variant: the dependency array is left out, the effect runs after every render.
UseEffEffectRunsAlways(isMount) == TRUE

\* useEffect(() => { fetchTodos(); }, []): the effect runs after the mount
\* render and after no other render.
UseEffEffectRuns(isMount) == isMount

\* No fetchTodos continuation is between two setter calls (JavaScript runs a
\* continuation to completion before any other event is handled).
UseEffQuiet == \A i \in Inst : Len(ueQueue[i]) = 0

UseEffView(i) == UseEffRender(ueState[i])

\* A render of instance i with state s, followed by its effects.
UseEffCommit(i, s, isMount) ==
    LET v == UseEffRender(s)
        n == IF v.kind # "Crash" /\ UseEffEffectRuns(isMount) THEN 1 ELSE 0
    IN  /\ ueState' = [ueState EXCEPT ![i] = s]
        /\ ueFirst' = [ueFirst EXCEPT ![i] = IF @ = "" THEN v.kind ELSE @]
        /\ ueSeen' = [ueSeen EXCEPT ![i] = @ \cup {v.kind}]
        /\ ueCalls' = [ueCalls EXCEPT ![i] = @ + n]
        /\ uePending' = [uePending EXCEPT ![i] = IF isMount THEN n ELSE @ - 1 + n]
        /\ ueLife' = [ueLife EXCEPT ![i] = IF v.kind = "Crash" THEN "crashed" ELSE "mounted"]

\* <UseEff /> is mounted: a fresh instance, its first render and its effect.
UseEffActivate ==
    /\ topic = "UseEff"
    /\ UseEffQuiet
    /\ ueN < MaxInst
    /\ ueN > 0 => ueLife[ueN] = "unmounted"
    /\ ueN' = ueN + 1
    /\ UseEffCommit(ueN + 1, UseEffInitialState, TRUE)
    /\ UNCHANGED <<topic, ueQueue, ueLate, ueSet, ueResp, rqVars, exVars>>

\* <UseEff /> is unmounted; the effect returns no cleanup function.
UseEffDeactivate ==
    /\ topic = "UseEff"
    /\ UseEffQuiet
    /\ ueN > 0
    /\ ueLife[ueN] = "mounted"
    /\ ueLife' = [ueLife EXCEPT ![ueN] = "unmounted"]
    /\ UNCHANGED <<topic, ueN, ueState, uePending, ueQueue, ueCalls, ueLate, ueFirst, ueSeen,
                   ueSet, ueResp, rqVars, exVars>>

\* The request of instance i settles and fetchTodos continues after its await.
\* On a mounted instance the two setter calls are rendered together (batched)
\* or one by one; on a deactivated instance they are still called.
fetchTodosSettle(i, resp) ==
    LET ws == UseEffFetchTodos(AxiosGet(resp)).writes
    IN  /\ topic = "UseEff"
        /\ UseEffQuiet
        /\ uePending[i] > 0
        /\ ueResp' = [ueResp EXCEPT ![i] = Settled(resp)]
        /\ UNCHANGED <<rqVars, exVars>>
        /\ \/ /\ ueLife[i] = "mounted"
              /\ \E batched \in IF Len(ws) > 1 THEN BOOLEAN ELSE {TRUE} :
                    IF batched
                    THEN /\ UseEffCommit(i, ApplyWrites(ueState[i], ws), FALSE)
                         /\ ueSet' = [ueSet EXCEPT ![i] = @ \cup SetterNames(ws)]
                         /\ UNCHANGED ueQueue
                    ELSE /\ UseEffCommit(i, ApplyWrite(ueState[i], Head(ws)), FALSE)
                         /\ ueSet' = [ueSet EXCEPT ![i] = @ \cup {SetterName(Head(ws))}]
                         /\ ueQueue' = [ueQueue EXCEPT ![i] = Tail(ws)]
              /\ UNCHANGED <<topic, ueN, ueLate>>
           \/ /\ ueLife[i] # "mounted"
              /\ ueLate' = [ueLate EXCEPT ![i] = @ \cup SetterNames(ws)]
              /\ uePending' = [uePending EXCEPT ![i] = @ - 1]
              /\ UNCHANGED <<topic, ueN, ueLife, ueState, ueQueue, ueCalls, ueFirst, ueSeen,
                             ueSet>>

\* The next setter call of a continuation that is rendered call by call.
fetchTodosContinue(i) ==
    /\ topic = "UseEff"
    /\ Len(ueQueue[i]) > 0
    /\ ueQueue' = [ueQueue EXCEPT ![i] = Tail(@)]
    /\ ueSet' = [ueSet EXCEPT ![i] = @ \cup {SetterName(Head(ueQueue[i]))}]
    /\ LET s == ApplyWrite(ueState[i], Head(ueQueue[i]))
           v == UseEffRender(s)
           n == IF v.kind # "Crash" /\ UseEffEffectRuns(FALSE) THEN 1 ELSE 0
       IN  /\ ueState' = [ueState EXCEPT ![i] = s]
           /\ ueSeen' = [ueSeen EXCEPT ![i] = @ \cup {v.kind}]
           /\ ueCalls' = [ueCalls EXCEPT ![i] = @ + n]
           /\ uePending' = [uePending EXCEPT ![i] = @ + n]
           /\ ueLife' = [ueLife EXCEPT ![i] = IF v.kind = "Crash" THEN "crashed" ELSE @]
    /\ UNCHANGED <<topic, ueN, ueLate, ueFirst, ueResp, rqVars, exVars>>

UseEffInit ==
    /\ ueN = 0
    /\ ueLife = [i \in Inst |-> "none"]
    /\ ueState = [i \in Inst |-> UseEffInitialState]
    /\ uePending = [i \in Inst |-> 0]
    /\ ueQueue = [i \in Inst |-> <<>>]
    /\ ueCalls = [i \in Inst |-> 0]
    /\ ueLate = [i \in Inst |-> {}]
    /\ ueFirst = [i \in Inst |-> ""]
    /\ ueSeen = [i \in Inst |-> {}]
    /\ ueSet = [i \in Inst |-> {}]
    /\ ueResp = [i \in Inst |-> NoResponse]

\* ---------------------------------------------------------------- RQuery
\* useQuery<Todo[], AxiosError>(["todos"], fetchTodos) is called with no
\* options, so the defaults of @tanstack/react-query v4 apply: retry 3,
\* staleTime 0, refetchOnMount and refetchOnWindowFocus true, and a cache
\* entry of the QueryClient that outlives the component until it is collected.
Retry == 3

MaxRefetch == 1   \* window-focus refetches during one activation

\* The state of a query that was just built: no data, status "loading".
NewQuery ==
    [exists |-> TRUE, status |-> "loading", hasData |-> FALSE, data |-> ArrayBody(<<>>),
     error |-> NullError, fetchStatus |-> "idle", failureCount |-> 0,
     failureReason |-> NullError]

NoQuery == [NewQuery EXCEPT !.exists = FALSE]

\* A fetch of the query starts: a query that never had data goes back to
\* "loading" with no error, a query with data keeps its status and data.
QueryFetch(q) ==
    LET f == [q EXCEPT !.fetchStatus = "fetching", !.failureCount = 0,
                       !.failureReason = NullError]
    IN  IF q.hasData THEN f ELSE [f EXCEPT !.status = "loading", !.error = NullError]

\* A try rejected and the retryer goes on.
QueryFailed(q, err) ==
    [q EXCEPT !.failureCount = @ + 1, !.failureReason = err]

\* fetchTodos resolved with data.
QuerySuccess(q, data) ==
    [q EXCEPT !.status = "success", !.hasData = TRUE, !.data = data, !.error = NullError,
              !.fetchStatus = "idle", !.failureCount = 0, !.failureReason = NullError]

\* The fetch is given up: the error is stored, earlier data stays.
QueryError(q, err) ==
    [q EXCEPT !.status = "error", !.error = err, !.fetchStatus = "idle",
              !.failureCount = @ + 1, !.failureReason = err]

\* const {data, error, isLoading} = useQuery(...)
UseQueryResult(q) ==
    [isLoading |-> q.status = "loading", error |-> q.error,
     hasData |-> q.hasData, data |-> q.data]

\* RQuery: data?.map((item, idx) => <div key={idx}>{item.id}) {item.title}</div>)
RQueryEntries(items) ==
    [i \in 1..Len(items) |->
        [key |-> i - 1, text |-> ToString(items[i].id) \o ") " \o items[i].title]]

\* The return statements of RQuery, in their order.
RQueryRender(r) ==
    IF r.isLoading THEN LoadingView
    ELSE IF ~r.error.isNull THEN ErrorView(r.error)
    ELSE IF ~r.hasData THEN SuccessView(<<>>)
    ELSE IF r.data.isArray THEN SuccessView(RQueryEntries(r.data.items))
    ELSE CrashView

RQueryView == RQueryRender(UseQueryResult(query))

\* The cache entry becomes q; a mounted RQuery renders the new result.
RQueryCommit(q, fresh) ==
    LET v == RQueryRender(UseQueryResult(q))
    IN  /\ query' = q
        /\ rqFirst' = IF fresh \/ rqFirst = "" THEN v.kind ELSE rqFirst
        /\ rqSeen' = IF fresh THEN {v.kind} ELSE rqSeen \cup {v.kind}
        /\ rqLife' = IF v.kind = "Crash" THEN "crashed" ELSE "mounted"

\* <RQuery /> is mounted: the observer subscribes; a fetch of the query starts
\* unless one is already running, which is then joined.
RQueryActivate ==
    /\ topic = "RQuery"
    /\ rqN < MaxInst
    /\ rqLife \in {"none", "unmounted"}
    /\ rqN' = rqN + 1
    /\ rqRefetches' = 0
    /\ rqResolved' = FALSE
    /\ rqRetryCancelled' = FALSE
    /\ LET q == IF query.exists THEN query ELSE NewQuery
       IN  IF q.fetchStatus = "fetching"
           THEN /\ RQueryCommit(q, TRUE)
                /\ rqAttempt' = "join"
                /\ rqCalls' = 0
                /\ UNCHANGED <<rqInFlight, rqCause, rqRejected>>
           ELSE /\ RQueryCommit(QueryFetch(q), TRUE)
                /\ rqAttempt' = "mount"
                /\ rqInFlight' = TRUE
                /\ rqCalls' = 1
                /\ rqCause' = "mount"
                /\ rqRejected' = FALSE
    /\ rqCached' = query.hasData
    /\ UNCHANGED <<topic, rqRetryWait, rqPrev, rqResp, ueVars, exVars>>

\* <RQuery /> is unmounted: the observer leaves, a running retryer stops retrying.
RQueryDeactivate ==
    /\ topic = "RQuery"
    /\ rqLife = "mounted"
    /\ rqLife' = "unmounted"
    /\ rqRetryCancelled' = (query.fetchStatus = "fetching")
    /\ rqPrev' = RQueryView.kind
    /\ UNCHANGED <<topic, rqN, query, rqInFlight, rqRetryWait, rqRefetches, rqAttempt,
                   rqCached, rqCalls, rqCause, rqRejected, rqResolved, rqFirst, rqSeen,
                   rqResp, ueVars, exVars>>

\* RQuery.fetchTodos: const {data} = await axios.get(...); return data;
\* There is no try/catch: a rejection of axios.get rejects fetchTodos.
RQueryFetchTodos(out) ==
    [threw |-> ~out.ok, data |-> out.data, err |-> out.err]

\* The cache entry q is stored; RQuery renders it if it is mounted.
RQueryNotify(q) ==
    IF rqLife = "mounted"
    THEN RQueryCommit(q, FALSE)
    ELSE /\ query' = q
         /\ UNCHANGED <<rqLife, rqFirst, rqSeen>>

\* The axios.get call of RQuery.fetchTodos settles.
RQueryFetchTodosSettle(resp) ==
    LET out == RQueryFetchTodos(AxiosGet(resp))
    IN  /\ topic = "RQuery"
        /\ rqInFlight
        /\ rqInFlight' = FALSE
        /\ rqResp' = Settled(resp)
        /\ IF ~out.threw
           THEN /\ RQueryNotify(QuerySuccess(query, out.data))
                /\ rqResolved' = TRUE
                /\ UNCHANGED <<rqRetryWait, rqRejected>>
           ELSE IF rqRetryCancelled \/ query.failureCount >= Retry
           THEN /\ RQueryNotify(QueryError(query, out.err))
                /\ rqResolved' = TRUE
                /\ rqRejected' = TRUE
                /\ UNCHANGED rqRetryWait
           ELSE /\ RQueryNotify(QueryFailed(query, out.err))
                /\ rqRetryWait' = TRUE
                /\ rqRejected' = TRUE
                /\ UNCHANGED rqResolved
        /\ UNCHANGED <<topic, rqN, rqRetryCancelled, rqRefetches, rqAttempt, rqCached,
                       rqPrev, rqCalls, rqCause, ueVars, exVars>>

\* The retry delay is over: fetchTodos is called again, or the fetch is given
\* up when retrying was cancelled meanwhile.
RQueryRetryTimer ==
    /\ topic = "RQuery"
    /\ rqRetryWait
    /\ rqRetryWait' = FALSE
    /\ IF rqRetryCancelled
       THEN /\ RQueryNotify(QueryError(query, query.failureReason))
            /\ rqResolved' = TRUE
            /\ UNCHANGED <<rqInFlight, rqCalls, rqCause>>
       ELSE /\ rqInFlight' = TRUE
            /\ rqCalls' = rqCalls + 1
            /\ rqCause' = "retry"
            /\ UNCHANGED <<query, rqLife, rqFirst, rqSeen, rqResolved>>
    /\ UNCHANGED <<topic, rqN, rqRetryCancelled, rqRefetches, rqAttempt, rqCached, rqPrev,
                   rqRejected, rqResp, ueVars, exVars>>

\* The window regains focus while RQuery is mounted: the stale query refetches.
RQueryWindowFocus ==
    /\ topic = "RQuery"
    /\ rqLife = "mounted"
    /\ query.fetchStatus = "idle"
    /\ rqRefetches < MaxRefetch
    /\ rqRefetches' = rqRefetches + 1
    /\ RQueryCommit(QueryFetch(query), TRUE)
    /\ rqAttempt' = "focus"
    /\ rqCached' = query.hasData
    /\ rqInFlight' = TRUE
    /\ rqCalls' = 1
    /\ rqCause' = "focus"
    /\ rqRejected' = FALSE
    /\ rqResolved' = FALSE
    /\ UNCHANGED <<topic, rqN, rqRetryWait, rqRetryCancelled, rqPrev, rqResp, ueVars, exVars>>

\* cacheTime is over with no observer and no fetch running: the entry is removed.
RQueryGc ==
    /\ topic = "RQuery"
    /\ query.exists
    /\ rqLife # "mounted"
    /\ query.fetchStatus = "idle"
    /\ query' = NoQuery
    /\ UNCHANGED <<topic, rqN, rqLife, rqInFlight, rqRetryWait, rqRetryCancelled,
                   rqRefetches, rqGhost, ueVars, exVars>>

RQueryInit ==
    /\ rqN = 0
    /\ rqLife = "none"
    /\ query = NoQuery
    /\ rqInFlight = FALSE
    /\ rqRetryWait = FALSE
    /\ rqRetryCancelled = FALSE
    /\ rqCalls = 0
    /\ rqCause = ""
    /\ rqRefetches = 0
    /\ rqRejected = FALSE
    /\ rqResolved = FALSE
    /\ rqFirst = ""
    /\ rqSeen = {}
    /\ rqAttempt = ""
    /\ rqCached = FALSE
    /\ rqPrev = ""
    /\ rqResp = NoResponse

\* ------------------------------------------------------ tutorial examples
MaxToggles == 3   \* clicks on the show/hide button
MaxTicks == 2     \* interval callbacks that run
MaxClicks == 3    \* button clicks in one behaviour
MaxKeys == 3      \* changes of the input in one behaviour
MaxClock == 5     \* the clock stops here

\* useDebounce(value, 300), in clock ticks of 100 ms.
Delay == 3

\* JavaScript values that a JSON body or a data state holds; null is JsNull.
JsValue(t, v) == [t |-> t, v |-> v]
JsNull == JsValue("null", "")

\* localStorage.getItem: null when the key is absent, else the stored string.
NoItem == [present |-> FALSE, text |-> ""]
Item(text) == [present |-> TRUE, text |-> text]

\* App renders with showExample = true: ExampleComponent is mounted and its
\* effect has set the first interval.
CleanupInit ==
    /\ clShow = TRUE
    /\ clActive = {1}
    /\ clOwn = 1
    /\ clNextId = 2
    /\ clToggles = 0
    /\ clLog = 0
    /\ clLate = FALSE

\* Faulty variant: the effect returns no cleanup function.
ExampleCleanupMissing(active, interval) == active

\* return () => { clearInterval(interval); ... }
ExampleCleanup(active, interval) == active \ {interval}

\* onClick={() => setShowExample(!showExample)}: hiding unmounts
\* ExampleComponent and runs the cleanup of its effect; showing mounts a new
\* ExampleComponent whose effect sets a new interval.
CleanupToggle ==
    /\ topic = "Cleanup"
    /\ clToggles < MaxToggles
    /\ clToggles' = clToggles + 1
    /\ clShow' = ~clShow
    /\ IF clShow
       THEN /\ clActive' = ExampleCleanup(clActive, clOwn)
            /\ clOwn' = 0
            /\ UNCHANGED clNextId
       ELSE /\ clActive' = clActive \cup {clNextId}
            /\ clOwn' = clNextId
            /\ clNextId' = clNextId + 1
    /\ UNCHANGED <<topic, clLog, clLate, clRest>>

\* An interval that was not cleared fires: console.log("Interval is running...").
CleanupTick(interval) ==
    /\ topic = "Cleanup"
    /\ interval \in clActive
    /\ clLog < MaxTicks
    /\ clLog' = clLog + 1
    /\ clLate' = (clLate \/ ~clShow)
    /\ UNCHANGED <<topic, clShow, clActive, clOwn, clNextId, clToggles, clRest>>

DepsInit ==
    /\ dpMounted = FALSE
    /\ dpMounts = 0
    /\ dpCount = 0
    /\ dpName = "John"
    /\ dpRuns = [every |-> 0, once |-> 0, onCount |-> 0]
    /\ dpRenders = 0
    /\ dpChanges = 0
    /\ dpClicks = 0

\* Faulty variant: name is listed next to count in the dependency array.
OnCountDepsWithName(count, name) == <<ToString(count), name>>

\* The dependency arrays of the second and the third effect: [] and [count].
OnceDeps(count, name) == <<>>
OnCountDeps(count, name) == <<ToString(count)>>

\* React runs an effect after the mount render, after every render when it
\* has no dependency array, and else after a render in which a dependency
\* differs from its value in the previous render.
EffectRuns(isMount, hasDeps, prev, next) ==
    isMount \/ ~hasDeps \/ prev # next

\* A render of ExampleComponent with (count, name) after one with
\* (pCount, pName), followed by its three effects.
DepsRender(isMount, pCount, pName, count, name) ==
    LET n(b) == IF b THEN 1 ELSE 0
    IN  /\ dpCount' = count
        /\ dpName' = name
        /\ dpRenders' = dpRenders + 1
        /\ dpRuns' =
              [every |-> dpRuns.every + n(EffectRuns(isMount, FALSE, <<>>, <<>>)),
               once |-> dpRuns.once + n(EffectRuns(isMount, TRUE, OnceDeps(pCount, pName),
                                                   OnceDeps(count, name))),
               onCount |-> dpRuns.onCount
                           + n(EffectRuns(isMount, TRUE, OnCountDeps(pCount, pName),
                                          OnCountDeps(count, name)))]

\* ExampleComponent is mounted: useState(0), useState("John"), first render.
DepsMount ==
    /\ topic = "Deps"
    /\ ~dpMounted
    /\ dpMounts < MaxInst
    /\ dpMounted' = TRUE
    /\ dpMounts' = dpMounts + 1
    /\ DepsRender(TRUE, 0, "John", 0, "John")
    /\ UNCHANGED <<topic, dpChanges, dpClicks, dpRest>>

\* ExampleComponent is unmounted; no effect has a cleanup.
DepsUnmount ==
    /\ topic = "Deps"
    /\ dpMounted
    /\ dpMounted' = FALSE
    /\ UNCHANGED <<topic, dpMounts, dpCount, dpName, dpRuns, dpRenders, dpChanges, dpClicks,
                   dpRest>>

\* onClick={() => setCount(count + 1)}
DepsIncrementCount ==
    /\ topic = "Deps"
    /\ dpMounted
    /\ dpClicks < MaxClicks
    /\ dpClicks' = dpClicks + 1
    /\ dpChanges' = dpChanges + 1
    /\ DepsRender(FALSE, dpCount, dpName, dpCount + 1, dpName)
    /\ UNCHANGED <<topic, dpMounted, dpMounts, dpRest>>

\* onClick={() => setName(name === "John" ? "Jane" : "John")}
DepsChangeName ==
    /\ topic = "Deps"
    /\ dpMounted
    /\ dpClicks < MaxClicks
    /\ dpClicks' = dpClicks + 1
    /\ DepsRender(FALSE, dpCount, dpName, dpCount, IF dpName = "John" THEN "Jane" ELSE "John")
    /\ UNCHANGED <<topic, dpMounted, dpMounts, dpChanges, dpRest>>

CacheInit ==
    /\ lcN = 0
    /\ lcMounted = FALSE
    /\ lcStorage = NoItem
    /\ lcData = [i \in Inst |-> JsNull]
    /\ lcPending = [i \in Inst |-> FALSE]
    /\ lcCalls = [i \in Inst |-> 0]
    /\ lcFound = [i \in Inst |-> NoItem]

\* The bodies the API answers with in the examples: JSON values, the falsy
\* ones among them.
JsonValues ==
    {JsNull, JsValue("number", "0"), JsValue("boolean", "false"), JsValue("string", ""),
     JsValue("string", "a")}

\* JSON.stringify of a JSON value.
JsonStringify(x) ==
    CASE x.t = "null" -> "null"
      [] x.t = "string" -> "\"" \o x.v \o "\""
      [] OTHER -> x.v

\* JSON.parse of the texts JSON.stringify produces for JsonValues.
JsonParse(text) ==
    CASE text = "null" -> JsNull
      [] text = "0" -> JsValue("number", "0")
      [] text = "false" -> JsValue("boolean", "false")
      [] text = "\"\"" -> JsValue("string", "")
      [] text = "\"a\"" -> JsValue("string", "a")

\* ToBoolean of a JavaScript value.
JsTruthy(x) ==
    CASE x.t = "null" -> FALSE
      [] x.t = "string" -> x.v # ""
      [] x.t = "number" -> x.v # "0"
      [] x.t = "boolean" -> x.v = "true"

\* Faulty variant: the test looks at the parsed value, not at the stored string.
CacheHitParsedTruthy(found) == found.present /\ JsTruthy(JsonParse(found.text))

\* if (cachedData): getItem returned a string and the string is not empty.
CacheHit(found) == found.present /\ JsTruthy(JsValue("string", found.text))

\* fetchData(): fetch rejects or response.json() rejects, or a JSON value results.
CacheResponses ==
    {[ok |-> FALSE, val |-> JsNull]} \cup {[ok |-> TRUE, val |-> x] : x \in JsonValues}

\* ExampleComponent is mounted: useState(null), first render, then the effect.
CacheMount ==
    LET i == lcN + 1
        cachedData == lcStorage
    IN  /\ topic = "Cache"
        /\ ~lcMounted
        /\ lcN < MaxInst
        /\ lcN' = i
        /\ lcMounted' = TRUE
        /\ lcFound' = [lcFound EXCEPT ![i] = cachedData]
        /\ IF CacheHit(cachedData)
           THEN /\ lcData' = [lcData EXCEPT ![i] = JsonParse(cachedData.text)]
                /\ UNCHANGED <<lcPending, lcCalls>>
           ELSE /\ lcPending' = [lcPending EXCEPT ![i] = TRUE]
                /\ lcCalls' = [lcCalls EXCEPT ![i] = @ + 1]
                /\ lcData' = [lcData EXCEPT ![i] = JsNull]
        /\ UNCHANGED <<topic, lcStorage, lcRest>>

\* ExampleComponent is unmounted; the effect returns no cleanup function.
CacheUnmount ==
    /\ topic = "Cache"
    /\ lcMounted
    /\ lcMounted' = FALSE
    /\ UNCHANGED <<topic, lcN, lcStorage, lcData, lcPending, lcCalls, lcFound, lcRest>>

\* fetchData() of instance i settles. then: setData(responseData) and
\* localStorage.setItem, which throws when the quota is exceeded; catch: the
\* error is logged. setData does nothing on an unmounted instance.
CacheFetchSettle(i, resp, quotaLeft) ==
    /\ topic = "Cache"
    /\ lcPending[i]
    /\ lcPending' = [lcPending EXCEPT ![i] = FALSE]
    /\ IF resp.ok
       THEN /\ lcData' = IF lcMounted /\ i = lcN
                         THEN [lcData EXCEPT ![i] = resp.val]
                         ELSE lcData
            /\ lcStorage' = IF quotaLeft THEN Item(JsonStringify(resp.val)) ELSE lcStorage
       ELSE UNCHANGED <<lcData, lcStorage>>
    /\ UNCHANGED <<topic, lcN, lcMounted, lcCalls, lcFound, lcRest>>

RefetchInit ==
    /\ rfN = 0
    /\ rfMounted = FALSE
    /\ rfActive = {}
    /\ rfOwn = 0
    /\ rfNextId = 1
    /\ rfPending = {}
    /\ rfNextReq = 1
    /\ rfData = [i \in Inst |-> [req |-> 0, val |-> JsNull]]
    /\ rfStarted = [i \in Inst |-> 0]
    /\ rfTicks = [i \in Inst |-> 0]
    /\ rfOrphans = 0
    /\ rfLate = [i \in Inst |-> FALSE]
    /\ rfStale = [i \in Inst |-> FALSE]

\* Faulty variant: the effect returns no cleanup function.
RefetchCleanupMissing(active, interval) == active

\* return () => clearInterval(interval);
RefetchCleanup(active, interval) == {t \in active : t.id # interval}

\* fetchData outcomes: a rejection of fetch or of response.json(), or a value.
RefetchResponses ==
    {[ok |-> FALSE, val |-> JsNull], [ok |-> TRUE, val |-> JsValue("string", "a")]}

RefetchIsMounted(i) == rfMounted /\ i = rfN

\* fetchData() is called for instance i: the request is issued.
RefetchStart(i) ==
    /\ rfPending' = rfPending \cup {[req |-> rfNextReq, inst |-> i]}
    /\ rfNextReq' = rfNextReq + 1
    /\ rfStarted' = [rfStarted EXCEPT ![i] = @ + 1]

\* ExampleComponent is mounted: the effect calls fetchData() and sets the interval.
RefetchMount ==
    /\ topic = "Refetch"
    /\ ~rfMounted
    /\ rfN < MaxInst
    /\ rfN' = rfN + 1
    /\ rfMounted' = TRUE
    /\ RefetchStart(rfN + 1)
    /\ rfActive' = rfActive \cup {[id |-> rfNextId, inst |-> rfN + 1]}
    /\ rfOwn' = rfNextId
    /\ rfNextId' = rfNextId + 1
    /\ UNCHANGED <<topic, rfData, rfTicks, rfOrphans, rfLate, rfStale, rfRest>>

\* ExampleComponent is unmounted: the cleanup of the effect runs.
RefetchUnmount ==
    /\ topic = "Refetch"
    /\ rfMounted
    /\ rfMounted' = FALSE
    /\ rfActive' = RefetchCleanup(rfActive, rfOwn)
    /\ rfOwn' = 0
    /\ UNCHANGED <<topic, rfN, rfNextId, rfPending, rfNextReq, rfData, rfStarted, rfTicks,
                   rfOrphans, rfLate, rfStale, rfRest>>

\* An interval that was not cleared fires: fetchData() of its instance is called.
RefetchTick(t) ==
    /\ topic = "Refetch"
    /\ t \in rfActive
    /\ rfNextReq <= MaxInst + MaxTicks
    /\ RefetchStart(t.inst)
    /\ rfTicks' = [rfTicks EXCEPT ![t.inst] = @ + 1]
    /\ rfOrphans' = rfOrphans + IF RefetchIsMounted(t.inst) THEN 0 ELSE 1
    /\ UNCHANGED <<topic, rfN, rfMounted, rfActive, rfOwn, rfNextId, rfData, rfLate, rfStale,
                   rfRest>>

\* Request p settles, in whatever order the responses arrive. A value is
\* passed to setData, which does nothing on an unmounted instance; a
\* rejection leaves fetchData uncaught and calls no setter.
RefetchSettle(p, resp) ==
    LET i == p.inst
    IN  /\ topic = "Refetch"
        /\ p \in rfPending
        /\ rfPending' = rfPending \ {p}
        /\ IF ~resp.ok
           THEN UNCHANGED <<rfData, rfLate, rfStale>>
           ELSE IF RefetchIsMounted(i)
           THEN /\ rfData' = [rfData EXCEPT ![i] = [req |-> p.req, val |-> resp.val]]
                /\ rfStale' = [rfStale EXCEPT ![i] = @ \/ p.req < rfData[i].req]
                /\ UNCHANGED rfLate
           ELSE /\ rfLate' = [rfLate EXCEPT ![i] = TRUE]
                /\ UNCHANGED <<rfData, rfStale>>
        /\ UNCHANGED <<topic, rfN, rfMounted, rfActive, rfOwn, rfNextId, rfNextReq, rfStarted,
                       rfTicks, rfOrphans, rfRest>>

\* App after its first render and effect: value "", one timeout pending.
DebounceInit ==
    /\ dbValue = ""
    /\ dbDebounced = ""
    /\ dbTimers = {[id |-> 1, due |-> Delay, val |-> ""]}
    /\ dbHandler = 1
    /\ dbNextId = 2
    /\ dbClock = 0
    /\ dbSince = 0

\* Faulty variant: the timeout set for the previous value is not cleared.
DebounceClearMissing(timers, handler) == timers

\* clearTimeout(handler.current), in the cleanup and at the start of the effect.
DebounceClear(timers, handler) == {t \in timers : t.id # handler}

InputValues == {"", "a", "b"}

\* handleChange: setValue(event.target.value). App renders with the new
\* value; the effect of useDebounce, whose dependency value changed, is
\* cleaned up and runs again.
DebounceChange(v) ==
    /\ topic = "Debounce"
    /\ v # dbValue
    /\ dbNextId <= MaxKeys + 1
    /\ dbValue' = v
    /\ dbSince' = dbClock
    /\ dbTimers' = DebounceClear(DebounceClear(dbTimers, dbHandler), dbHandler)
                       \cup {[id |-> dbNextId, due |-> dbClock + Delay, val |-> v]}
    /\ dbHandler' = dbNextId
    /\ dbNextId' = dbNextId + 1
    /\ UNCHANGED <<topic, dbDebounced, dbClock, dbRest>>

\* 100 ms pass.
DebounceTick ==
    /\ topic = "Debounce"
    /\ dbClock < MaxClock
    /\ dbClock' = dbClock + 1
    /\ UNCHANGED <<topic, dbValue, dbDebounced, dbTimers, dbHandler, dbNextId, dbSince, dbRest>>

\* A timeout that is due and was not cleared fires, at its time or later:
\* setDebouncedValue(value) with the value of the render that set it.
DebounceFire(t) ==
    /\ topic = "Debounce"
    /\ t \in dbTimers
    /\ dbClock >= t.due
    /\ dbTimers' = dbTimers \ {t}
    /\ dbDebounced' = t.val
    /\ UNCHANGED <<topic, dbValue, dbHandler, dbNextId, dbClock, dbSince, dbRest>>

CounterInit ==
    /\ ctFunctional = 0
    /\ ctValue = 0
    /\ ctClicksF = 0
    /\ ctClicksV = 0

\* The two kinds of argument of a state setter: a value and an updater function.
ValueUpdate(v) == [functional |-> FALSE, n |-> v]
IncrementUpdate == [functional |-> TRUE, n |-> 1]   \* (prevCount) => prevCount + 1

\* React works through the queued updates of a state cell in their order: a
\* value replaces the state, an updater is applied to the state before it.
ApplyUpdate(s, u) == IF u.functional THEN s + u.n ELSE u.n

RECURSIVE ApplyUpdates(_, _)
ApplyUpdates(s, us) ==
    IF Len(us) = 0 THEN s ELSE ApplyUpdates(ApplyUpdate(s, Head(us)), Tail(us))

\* incrementTwice of the Issue example: setCount(count + 1); setCount(count + 1);
\* count is the value of the render the handler belongs to.
incrementTwiceValue(count) == <<ValueUpdate(count + 1), ValueUpdate(count + 1)>>

\* Faulty variant: the Solution example written with values.
incrementTwiceFunctionalByValue(count) == incrementTwiceValue(count)

\* incrementTwice of the Solution example: two updater functions.
incrementTwiceFunctional(count) == <<IncrementUpdate, IncrementUpdate>>

\* A click on "Increment Twice" in the Issue example, and the render after it.
CounterClickValue ==
    /\ topic = "Counter"
    /\ ctClicksV < MaxClicks
    /\ ctClicksV' = ctClicksV + 1
    /\ ctValue' = ApplyUpdates(ctValue, incrementTwiceValue(ctValue))
    /\ UNCHANGED <<topic, ctFunctional, ctClicksF, ctRest>>

\* A click on "Increment Twice" in the Solution example, and the render after it.
CounterClickFunctional ==
    /\ topic = "Counter"
    /\ ctClicksF < MaxClicks
    /\ ctClicksF' = ctClicksF + 1
    /\ ctFunctional' = ApplyUpdates(ctFunctional, incrementTwiceFunctional(ctFunctional))
    /\ UNCHANGED <<topic, ctValue, ctClicksV, ctRest>>

\* MyComponent after its first render, before its effect has run.
FullNameInit ==
    /\ fnFirst = ""
    /\ fnLast = ""
    /\ fnFull = ""
    /\ fnDirty = TRUE

NameValues == {"", "A", "B"}

\* `${firstName} ${lastName}`
FullNameOf(firstName, lastName) == firstName \o " " \o lastName

\* <p>Full Name: {fullName}</p>
FullNameShown(fullName) == "Full Name: " \o fullName

\* Faulty variant: lastName is missing in the dependency array.
FullNameDepsFirstOnly(firstName, lastName) == <<firstName>>

\* The dependency array of the effect: [firstName, lastName].
FullNameDeps(firstName, lastName) == <<firstName, lastName>>

\* What the two versions of MyComponent show for the same inputs.
FullNameEffectView == FullNameShown(fnFull)
FullNameDerivedView == FullNameShown(FullNameOf(fnFirst, fnLast))

\* onChange of one of the inputs: the setter, then the render; the effect is
\* due if a dependency changed. React runs a due effect before it handles
\* the next event.
FullNameInput(field, v) ==
    LET first == IF field = "firstName" THEN v ELSE fnFirst
        last == IF field = "lastName" THEN v ELSE fnLast
    IN  /\ topic = "FullName"
        /\ ~fnDirty
        /\ <<first, last>> # <<fnFirst, fnLast>>
        /\ fnFirst' = first
        /\ fnLast' = last
        /\ fnDirty' = EffectRuns(FALSE, TRUE, FullNameDeps(fnFirst, fnLast),
                                 FullNameDeps(first, last))
        /\ UNCHANGED <<topic, fnFull, fnRest>>

\* The effect runs: setFullName(`${firstName} ${lastName}`), and the render
\* after it, in which no dependency has changed.
FullNameEffect ==
    /\ topic = "FullName"
    /\ fnDirty
    /\ fnFull' = FullNameOf(fnFirst, fnLast)
    /\ fnDirty' = FALSE
    /\ UNCHANGED <<topic, fnFirst, fnLast, fnRest>>

\* ---------------------------------------------------------------- system
vars == <<topic, ueVars, rqVars, exVars>>

Topics == {"UseEff", "RQuery", "Cleanup", "Deps", "Cache", "Refetch", "Debounce", "Counter", "FullName"}

Init ==
    /\ topic \in Topics
    /\ UseEffInit
    /\ RQueryInit
    /\ CleanupInit
    /\ DepsInit
    /\ CacheInit
    /\ RefetchInit
    /\ DebounceInit
    /\ CounterInit
    /\ FullNameInit

Next ==
    \/ UseEffActivate
    \/ UseEffDeactivate
    \/ \E i \in Inst, resp \in Responses : fetchTodosSettle(i, resp)
    \/ \E i \in Inst : fetchTodosContinue(i)
    \/ RQueryActivate
    \/ RQueryDeactivate
    \/ \E resp \in Responses : RQueryFetchTodosSettle(resp)
    \/ RQueryRetryTimer
    \/ RQueryWindowFocus
    \/ RQueryGc
    \/ CleanupToggle
    \/ \E interval \in 1..(MaxToggles + 1) : CleanupTick(interval)
    \/ DepsMount
    \/ DepsUnmount
    \/ DepsIncrementCount
    \/ DepsChangeName
    \/ CacheMount
    \/ CacheUnmount
    \/ \E i \in Inst, resp \in CacheResponses, quotaLeft \in BOOLEAN :
            CacheFetchSettle(i, resp, quotaLeft)
    \/ RefetchMount
    \/ RefetchUnmount
    \/ \E t \in rfActive : RefetchTick(t)
    \/ \E p \in rfPending, resp \in RefetchResponses : RefetchSettle(p, resp)
    \/ \E v \in InputValues : DebounceChange(v)
    \/ DebounceTick
    \/ \E t \in dbTimers : DebounceFire(t)
    \/ CounterClickValue
    \/ CounterClickFunctional
    \/ \E field \in {"firstName", "lastName"}, v \in NameValues : FullNameInput(field, v)
    \/ FullNameEffect

Spec == Init /\ [][Next]_vars
\* ---------------------------------------------------------------- claims
Terminal == {"Success", "Error"}

UseEffDone(i) == ueResp[i].settled /\ Len(ueQueue[i]) = 0
UseEffOutcome(i) == AxiosGet(ueResp[i])
UseEffRejected(i) == ueResp[i].settled /\ ~UseEffOutcome(i).ok
RQueryOutcome == AxiosGet(rqResp)

LoadingFirstNeverBoth(first, seen) ==
    /\ seen \cap Terminal # {} => first = "Loading"
    /\ ~(Terminal \subseteq seen)

\* C1 as claimed: every attempt of UseEff and of RQuery shows Loading before a
\* terminal view and never shows both Success and Error.
C1_EveryAttemptLoadingFirst ==
    /\ \A i \in Inst : LoadingFirstNeverBoth(ueFirst[i], ueSeen[i])
    /\ LoadingFirstNeverBoth(rqFirst, rqSeen)

\* C1 amended: every attempt of UseEff, and every attempt of RQuery that begins
\* with no cached data for the query, shows Loading before a terminal view and
\* never shows both Success and Error.
C1_LoadingFirstUnlessCached ==
    /\ \A i \in Inst : LoadingFirstNeverBoth(ueFirst[i], ueSeen[i])
    /\ ~rqCached => LoadingFirstNeverBoth(rqFirst, rqSeen)

C1_Witness ==
    \/ \E i \in Inst : ueFirst[i] = "Loading" /\ ueSeen[i] = {"Loading", "Error"}
                        /\ ueLife[i] = "mounted" /\ i = MaxInst
    \/ rqN = 2 /\ ~rqCached /\ rqFirst = "Loading" /\ rqSeen = {"Loading", "Success"}
       /\ rqAttempt = "focus"

\* C2 as claimed: a rejected request ends the attempt in the Error view with a
\* non-empty message and never in the Success view, in UseEff and in RQuery.
C2_RejectionEndsInError ==
    /\ \A i \in Inst :
          UseEffRejected(i) =>
             /\ "Success" \notin ueSeen[i]
             /\ ueLife[i] = "mounted" /\ UseEffDone(i) =>
                   /\ UseEffView(i).kind = "Error"
                   /\ UseEffView(i).text # ""
    /\ rqLife = "mounted" /\ rqRejected /\ rqResolved =>
          /\ RQueryView.kind = "Error"
          /\ RQueryView.text # ""

\* C2 amended: in UseEff a rejected request ends the attempt in the Error view
\* showing the message of the rejection, never in Success; in RQuery a rejected
\* request is retried, and the attempt ends in the Error view showing the
\* message of the last rejection once the fetch is given up.
C2_GivenUpEndsInError ==
    /\ \A i \in Inst :
          UseEffRejected(i) =>
             /\ "Success" \notin ueSeen[i]
             /\ ueLife[i] = "mounted" /\ UseEffDone(i) =>
                   /\ UseEffView(i).kind = "Error"
                   /\ UseEffView(i).text = UseEffOutcome(i).err.message
                   /\ UseEffView(i).text # ""
    /\ rqLife = "mounted" /\ rqResolved /\ rqResp.settled /\ ~RQueryOutcome.ok =>
          /\ RQueryView.kind = "Error"
          /\ RQueryView.text = RQueryOutcome.err.message
          /\ RQueryView.text # ""

C2_Witness ==
    \E i \in Inst :
        /\ UseEffRejected(i) /\ ueResp[i].status = 404
        /\ ueLife[i] = "mounted" /\ UseEffDone(i)
        /\ UseEffView(i) = ErrorView(AxiosError("Request failed with status code 404"))

UseEffReactivation(i) ==
    /\ i > 1
    /\ ueLife[i] # "none"
    /\ UseEffView(i - 1).kind \in Terminal

UseEffFreshStart(i) ==
    /\ ueFirst[i] = "Loading"
    /\ ueCalls[i] = 1
    /\ ~ueResp[i].settled =>
          /\ UseEffView(i).kind = "Loading"
          /\ ueState[i].todos = ArrayBody(<<>>)
          /\ ueState[i].error.isNull

RQueryReactivation ==
    /\ rqN > 1
    /\ rqLife = "mounted"
    /\ rqAttempt \in {"mount", "join"}
    /\ rqPrev \in Terminal

C4_ReactivationStartsFresh ==
    /\ \A i \in Inst : UseEffReactivation(i) => UseEffFreshStart(i)
    /\ RQueryReactivation =>
          /\ rqFirst = "Loading"
          /\ ~rqRejected => rqCalls = 1
          /\ ~rqResolved => RQueryView.kind = "Loading"

\* C4 amended: a re-activation of UseEff after Success or Error shows Loading
\* first, starts exactly one fetch and shows nothing of the previous attempt
\* before it resolves. A re-activation of RQuery while no fetch of the query is
\* running starts exactly one fetch; it shows Loading until that fetch ends
\* only when the cache holds no data, and shows the cached result of the
\* previous attempt at once when it does.
C4_ReactivationFreshUnlessCached ==
    /\ \A i \in Inst : UseEffReactivation(i) => UseEffFreshStart(i)
    /\ RQueryReactivation /\ rqAttempt = "mount" =>
          /\ ~rqRejected => rqCalls = 1
          /\ rqCached => rqFirst # "Loading"
          /\ ~rqCached =>
                /\ rqFirst = "Loading"
                /\ ~rqResolved => RQueryView.kind = "Loading"

C4_Witness ==
    \/ \E i \in Inst : UseEffReactivation(i) /\ ueLife[i] = "mounted"
                        /\ uePending[i] = 1 /\ UseEffView(i - 1).kind = "Success"
    \/ RQueryReactivation /\ rqAttempt = "mount" /\ rqCached /\ rqFirst = "Success"
       /\ ~rqResolved

\* C5: a resolved array of N items is rendered as N entries, entry i showing
\* item i, under pairwise distinct keys.
DistinctKeys(es) ==
    \A a, b \in 1..Len(es) : a # b => es[a].key # es[b].key

C5_RendersEveryItemInOrder ==
    /\ \A i \in Inst :
          /\ ueLife[i] = "mounted" /\ UseEffDone(i)
          /\ UseEffOutcome(i).ok /\ UseEffOutcome(i).data.isArray
          => LET v == UseEffView(i)
                 items == UseEffOutcome(i).data.items
             IN  /\ v.kind = "Success"
                 /\ Len(v.entries) = Len(items)
                 /\ \A k \in 1..Len(items) : v.entries[k].text = items[k].title
                 /\ DistinctKeys(v.entries)
    /\ /\ rqLife = "mounted" /\ rqResolved /\ rqResp.settled
       /\ RQueryOutcome.ok /\ RQueryOutcome.data.isArray
       => LET v == RQueryView
              items == RQueryOutcome.data.items
          IN  /\ v.kind = "Success"
              /\ Len(v.entries) = Len(items)
              /\ \A k \in 1..Len(items) :
                    v.entries[k].text = ToString(items[k].id) \o ") " \o items[k].title
              /\ DistinctKeys(v.entries)

C5_Witness ==
    \E i \in Inst :
        /\ ueLife[i] = "mounted" /\ UseEffDone(i)
        /\ UseEffView(i).kind = "Success"
        /\ Len(UseEffView(i).entries) = MaxLen
        /\ UseEffView(i).entries[1].text = UseEffView(i).entries[MaxLen].text

\* C6: in UseEff the number of axios.get calls equals the number of
\* activations: every activation issues one call, no re-render issues another.
RECURSIVE SumUpTo(_, _)
SumUpTo(f, n) == IF n = 0 THEN 0 ELSE f[n] + SumUpTo(f, n - 1)

C6_OneFetchPerActivation ==
    /\ SumUpTo(ueCalls, MaxInst) = ueN
    /\ \A i \in Inst : ueCalls[i] = IF i <= ueN THEN 1 ELSE 0

C6_Witness ==
    /\ ueN = MaxInst
    /\ \A i \in Inst : UseEffDone(i) /\ "setLoading" \in ueSet[i]
    /\ SumUpTo(ueCalls, MaxInst) = MaxInst

\* C7 as claimed: after a request has rejected, neither UseEff nor RQuery
\* issues another fetch call during that attempt.
C7_NoCallAfterRejection ==
    /\ \A i \in Inst : UseEffRejected(i) => ueCalls[i] = 1 /\ uePending[i] = 0
    /\ rqRejected => rqCalls <= 1

\* C7 amended: after a request has rejected, UseEff issues no further fetch
\* call; RQuery calls fetchTodos again after a rejection, at most Retry times
\* in one attempt.
C7_NoRetryInUseEffBoundedInRQuery ==
    /\ \A i \in Inst : UseEffRejected(i) => ueCalls[i] = 1 /\ uePending[i] = 0
    /\ rqCalls <= Retry + 1
    /\ rqCalls > 1 => rqRejected

C7_Witness ==
    \/ \E i \in Inst : UseEffRejected(i) /\ ~ueResp[i].reached /\ ueLife[i] = "mounted"
                        /\ UseEffDone(i) /\ ueCalls[i] = 1 /\ uePending[i] = 0
    \/ rqCalls = Retry + 1 /\ rqResolved /\ query.status = "error"

\* C8 as claimed: an unreachable network, a status outside 2xx and a body that
\* is no array of items all end in the Error view of UseEff.
FailureKind(resp) ==
    \/ ~resp.reached
    \/ resp.status < 200 \/ resp.status >= 300
    \/ ~resp.body.isArray

C8_EveryFailureKindEndsInError ==
    \A i \in Inst :
        /\ UseEffDone(i) /\ FailureKind(ueResp[i])
        /\ ueLife[i] \in {"mounted", "crashed"}
        => UseEffView(i).kind = "Error"

\* C9: once an instance of UseEff has left Loading, its state, and so its
\* view, never changes again.
C9_TerminalIsAbsorbing ==
    [][\A i \in Inst : ~ueState[i].loading => ueState'[i] = ueState[i]]_vars

C9_Witness ==
    /\ ueN = 2
    /\ UseEffView(1).kind \in Terminal
    /\ ueLife[2] = "unmounted"
    /\ UseEffView(2).kind \in Terminal
    /\ UseEffView(2).kind # UseEffView(1).kind

\* C10 as claimed: the state of an instance encodes exactly one of Pending,
\* Succeeded, Failed at any time, in UseEff and in RQuery.
ExactlyOne(a, b, c) ==
    \/ a /\ ~b /\ ~c
    \/ ~a /\ b /\ ~c
    \/ ~a /\ ~b /\ c

UseEffPending(i) == ueState[i].loading
UseEffSucceeded(i) == "setTodos" \in ueSet[i]
UseEffFailed(i) == ~ueState[i].error.isNull

RQueryPending == query.status = "loading"
RQuerySucceeded == query.hasData
RQueryFailed == ~query.error.isNull

C11_AtMostOneInFlight ==
    \A i \in Inst :
        /\ uePending[i] <= 1
        /\ Len(ueQueue[i]) > 0 => uePending[i] = 0
        /\ ueCalls[i] <= 1

C11_Witness ==
    /\ ueN = 2
    /\ ueLife[1] = "unmounted" /\ uePending[1] = 1
    /\ ueLife[2] = "mounted" /\ uePending[2] = 0 /\ ueCalls[2] = 1
    /\ UseEffDone(2)

\* C12 as claimed: an instance whose request has settled and that was not
\* deactivated shows Success or Error, and shows Loading until the request
\* has settled (UseEff); a mounted RQuery whose fetch is over shows Success
\* or Error.
C12_SettledActivationResolved ==
    /\ \A i \in Inst :
          ueLife[i] \in {"mounted", "crashed"} =>
              IF ueResp[i].settled
              THEN Len(ueQueue[i]) = 0 => UseEffView(i).kind \in Terminal
              ELSE UseEffView(i).kind = "Loading"
    /\ rqLife \in {"mounted", "crashed"} /\ query.fetchStatus = "idle" =>
          RQueryView.kind \in Terminal

\* C13 as claimed: neither fetchTodos lets a rejection of axios.get escape.
C13_NoFetcherThrows ==
    /\ \A i \in Inst :
          ueResp[i].settled => ~UseEffFetchTodos(AxiosGet(ueResp[i])).threw
    /\ rqResp.settled => ~RQueryFetchTodos(AxiosGet(rqResp)).threw

\* C13 amended: UseEff.fetchTodos catches the rejection itself and stores it
\* as the error state. RQuery.fetchTodos rejects with it; useQuery catches the
\* rejection and, once the fetch is given up, hands it to the view as error.
C13_CaughtInUseEffByUseQueryInRQuery ==
    /\ \A i \in Inst :
          /\ ueResp[i].settled => ~UseEffFetchTodos(AxiosGet(ueResp[i])).threw
          /\ UseEffRejected(i) /\ UseEffDone(i) /\ ueLife[i] = "mounted" =>
                /\ ueState[i].error = UseEffOutcome(i).err
                /\ UseEffView(i) = ErrorView(UseEffOutcome(i).err)
    /\ rqResp.settled /\ ~RQueryOutcome.ok =>
          /\ RQueryFetchTodos(RQueryOutcome).threw
          /\ query.exists /\ query.fetchStatus = "idle" =>
                /\ query.error = RQueryOutcome.err
                /\ rqLife = "mounted" => RQueryView = ErrorView(RQueryOutcome.err)

C13_Witness ==
    /\ rqLife = "mounted"
    /\ rqResp.settled /\ ~RQueryOutcome.ok
    /\ query.fetchStatus = "idle"
    /\ query.hasData
    /\ RQueryView.kind = "Error"

\* C14: in the cleanup example no interval is active while ExampleComponent
\* is unmounted, no interval callback runs after the unmount, and over any
\* sequence of toggles at most one interval is active, the one of the
\* mounted ExampleComponent.
C14_IntervalClearedOnUnmount ==
    /\ Cardinality(clActive) <= 1
    /\ ~clShow => clActive = {}
    /\ clShow => clActive = {clOwn}
    /\ ~clLate

C14_Witness ==
    /\ clToggles = 3
    /\ ~clShow
    /\ clLog = 2
    /\ clNextId = 3
\* C15: in the three-effects example the effect with [count] has run once
\* per mount and once per render in which count differed from the render
\* before, so never for a render in which only name changed; the effect with
\* [] has run exactly once per mount; the effect without array once per render.
C15_EffectsFollowTheirDependencies ==
    /\ dpRuns.once = dpMounts
    /\ dpRuns.onCount = dpMounts + dpChanges
    /\ dpRuns.every = dpRenders

C15_Witness ==
    /\ dpMounts = 2
    /\ dpClicks = 3
    /\ dpChanges = 1
    /\ dpName = "Jane"
    /\ dpRuns.onCount = 3
    /\ dpRuns.every = 5
\* C16: in the localStorage example, once a fetched value has been stored
\* under "cachedData" the item stays stored, and every instance that is
\* activated afterwards issues no API request and shows the stored value.
C16_CachedDataUsedWithoutRequest ==
    \A i \in 1..lcN :
        lcFound[i].present =>
            /\ lcCalls[i] = 0
            /\ ~lcPending[i]
            /\ lcData[i] = JsonParse(lcFound[i].text)
            /\ lcStorage.present
            /\ \A j \in (i + 1)..lcN : lcFound[j].present

C16_Witness ==
    /\ lcN = 2
    /\ lcCalls[1] = 1
    /\ lcFound[2] = Item("0")
    /\ lcData[2] = JsValue("number", "0")
    /\ lcCalls[2] = 0
\* C17: in the interval-refetch example an instance has started one fetch
\* for its mount and one per tick of its interval; no interval is set while
\* the component is unmounted, and no fetch was started for an instance
\* after its unmount.
C17_FetchOnMountAndPerTick ==
    /\ \A i \in Inst : rfStarted[i] = (IF i <= rfN THEN 1 ELSE 0) + rfTicks[i]
    /\ ~rfMounted => rfActive = {}
    /\ rfMounted => rfActive = {[id |-> rfOwn, inst |-> rfN]}
    /\ rfOrphans = 0

C17_Witness ==
    /\ rfN = 2
    /\ ~rfMounted
    /\ rfStarted[1] = 2 /\ rfTicks[1] = 1
    /\ rfStarted[2] = 2 /\ rfTicks[2] = 1
\* C18: whenever debouncedValue changes, it becomes the current value, and
\* that value has been the value for at least the whole delay: a value that
\* was replaced before its delay elapsed never becomes debouncedValue.
C18_DebouncedOnlyAfterQuietDelay ==
    [][dbDebounced' # dbDebounced =>
          /\ dbDebounced' = dbValue
          /\ dbClock - dbSince >= Delay]_vars

C18_Witness ==
    /\ dbDebounced = "b"
    /\ dbValue = "b"
    /\ dbNextId = 4
    /\ dbSince < Delay
    /\ dbTimers = {}
\* C19: after k invocations of incrementTwice the count of the version with
\* updater functions is 2k, and the count of the version with values is k:
\* that version increases count by exactly 1 per invocation.
C19_FunctionalTwiceValueOnce ==
    /\ ctFunctional = 2 * ctClicksF
    /\ ctValue = ctClicksV

C19_Witness ==
    /\ ctClicksF = 3 /\ ctFunctional = 6
    /\ ctClicksV = 3 /\ ctValue = 3
\* C20: once the effect of the useEffect version of MyComponent has run, it
\* shows the same full name as the version that derives fullName in the
\* render, for the same firstName and lastName.
C20_SameFullNameAfterEffects ==
    ~fnDirty => FullNameEffectView = FullNameDerivedView

C20_Witness ==
    /\ ~fnDirty
    /\ fnFirst = "A" /\ fnLast = "B"
    /\ FullNameEffectView = "Full Name: A B"
\* What each component shows at the end of an attempt whose request settled
\* with outcome out: the return statements of the component applied to it.
UseEffExpected(out) ==
    IF ~out.ok THEN ErrorView(out.err)
    ELSE IF out.data.isArray THEN SuccessView(UseEffEntries(out.data.items))
    ELSE CrashView

RQueryExpected(out) ==
    IF ~out.ok THEN ErrorView(out.err)
    ELSE IF out.data.isArray THEN SuccessView(RQueryEntries(out.data.items))
    ELSE CrashView

\* The views of an attempt are Loading and then the view expected.
ViewSequence(first, seen, view, expected) ==
    /\ first = "Loading"
    /\ seen = {"Loading", expected.kind}
    /\ view = expected

\* The outcomes C21 speaks of: an array of items, or a rejection.
WellFormed(out) == ~out.ok \/ out.data.isArray

\* One line per item in both components, in the order of the items; RQuery
\* puts the id of the item in front of the title UseEff shows.
SameItemsShown(items) ==
    /\ Len(UseEffEntries(items)) = Len(items)
    /\ Len(RQueryEntries(items)) = Len(items)
    /\ \A k \in 1..Len(items) :
          /\ UseEffEntries(items)[k].text = items[k].title
          /\ RQueryEntries(items)[k].text = ToString(items[k].id) \o ") " \o items[k].title

\* The first activation of RQuery, with nothing cached and no refetch yet.
RQueryFirstAttempt == rqN = 1 /\ rqAttempt = "mount"

\* C21 as claimed: once the one request of an activation has settled with an
\* array of items or with a rejection, UseEff and RQuery have both shown
\* Loading and then Success with these items, or Loading and then Error with
\* the message of the rejection.
C21_SameViewSequence ==
    /\ \A i \in Inst :
          UseEffDone(i) /\ ueLife[i] = "mounted" /\ WellFormed(UseEffOutcome(i)) =>
              ViewSequence(ueFirst[i], ueSeen[i], UseEffView(i),
                           UseEffExpected(UseEffOutcome(i)))
    /\ /\ RQueryFirstAttempt /\ rqLife = "mounted"
       /\ rqResp.settled /\ rqCalls = 1 /\ ~rqInFlight
       /\ WellFormed(RQueryOutcome)
       => ViewSequence(rqFirst, rqSeen, RQueryView, RQueryExpected(RQueryOutcome))

\* C21 amended: UseEff shows Loading and then the view of the outcome of its
\* one request. RQuery in its first activation shows Loading until its fetch
\* has ended and then the view of the outcome of its last request: Success
\* after the first request that resolved, Error only after the first call and
\* Retry further calls were all rejected. Both show one line per item, in the
\* order of the items.
C21_SameSequenceOnceRQueryGivesUp ==
    /\ \A i \in Inst :
          /\ UseEffDone(i) /\ ueLife[i] \in {"mounted", "crashed"} =>
                ViewSequence(ueFirst[i], ueSeen[i], UseEffView(i),
                             UseEffExpected(UseEffOutcome(i)))
          /\ UseEffDone(i) /\ UseEffOutcome(i).ok /\ UseEffOutcome(i).data.isArray =>
                SameItemsShown(UseEffOutcome(i).data.items)
    /\ RQueryFirstAttempt /\ rqLife \in {"mounted", "crashed"} /\ query.exists =>
          /\ rqFirst = "Loading"
          /\ IF rqResolved
             THEN /\ ViewSequence(rqFirst, rqSeen, RQueryView,
                                  RQueryExpected(RQueryOutcome))
                  /\ ~RQueryOutcome.ok => rqCalls = Retry + 1
             ELSE /\ RQueryView = LoadingView
                  /\ rqSeen = {"Loading"}

C21_Witness ==
    /\ RQueryFirstAttempt /\ rqLife = "mounted"
    /\ rqResolved
    /\ rqCalls = Retry + 1
    /\ RQueryView.kind = "Error"
    /\ rqSeen = {"Loading", "Error"}
\* C22: batched or not, no render of UseEff between the two setter calls of
\* a branch shows a terminal view: while the second call is outstanding the
\* view is Loading; every state with loading = false and error = null holds
\* the fetched data in todos; after a rejection no view shows Success.
C22_NoTerminalViewEarly ==
    \A i \in Inst :
        /\ Len(ueQueue[i]) > 0 =>
              /\ ueState[i].loading
              /\ UseEffView(i).kind = "Loading"
        /\ ~ueState[i].loading /\ ueState[i].error.isNull =>
              /\ ueResp[i].settled /\ UseEffOutcome(i).ok
              /\ ueState[i].todos = UseEffOutcome(i).data
        /\ UseEffRejected(i) => ueSeen[i] \subseteq {"Loading", "Error"}

C22_Witness ==
    \E i \in Inst :
        /\ Len(ueQueue[i]) = 1
        /\ ueLife[i] = "mounted"
        /\ UseEffOutcome(i).ok
        /\ Len(ueState[i].todos.items) = MaxLen
        /\ UseEffView(i).kind = "Loading"

\* C23: the setters fetchTodos has called on an instance, mounted or not,
\* are exactly setTodos and setLoading after a resolved request and exactly
\* setError and setLoading after a rejected one; so error is still null
\* after a success and todos is still the initial empty list after a failure.
C23_WritesExactlyItsBranch ==
    \A i \in Inst :
        UseEffDone(i) =>
            IF UseEffOutcome(i).ok
            THEN /\ ueSet[i] \cup ueLate[i] = {"setTodos", "setLoading"}
                 /\ ueState[i].error = NullError
            ELSE /\ ueSet[i] \cup ueLate[i] = {"setError", "setLoading"}
                 /\ ueState[i].todos = UseEffInitialState.todos

C23_Witness ==
    /\ ueN = 2
    /\ UseEffDone(1) /\ UseEffOutcome(1).ok /\ ueSet[1] = {"setTodos", "setLoading"}
    /\ Len(ueState[1].todos.items) > 0
    /\ UseEffDone(2) /\ UseEffRejected(2) /\ ueSet[2] = {"setError", "setLoading"}
    /\ ueLife[2] = "mounted"
\* C24 as claimed: in the interval-refetch example the data an instance shows
\* is never replaced by the response of a request that was started before
\* the request whose response it shows.
C24_ResponsesAppliedInOrder ==
    \A i \in Inst : ~rfStale[i]

\* C25 as claimed: in the interval-refetch example a fetchData call that is
\* in flight at the unmount does not call setData on the unmounted instance
\* when it resolves.
C25_NoSetDataAfterUnmount ==
    \A i \in Inst : ~rfLate[i]
====
